---- MODULE Spec2Model ----
(***************************************************************************)
(* Model of the turbo-PLONK arithmetic widget (prover and verifier) and of *)
(* the public-input delta computation of barretenberg/waffle.              *)
(*                                                                         *)
(* Field elements are modelled by their canonical residues 0..P-1 of a     *)
(* small prime field; Montgomery form and coarse reduction are             *)
(* representations of the same residue and are not modelled.               *)
(***************************************************************************)
EXTENDS Integers, Sequences, FiniteSets, TLC

(***************************************************************************)
(* The scalar field fr.                                                    *)
(***************************************************************************)
P == 13

Fr == 0 .. (P - 1)

FAdd(a, b) == (a + b) % P

FSub(a, b) == (a + P - b) % P

FMul(a, b) == (a * b) % P

FSqr(a) == FMul(a, a)

RECURSIVE FPow(_, _)
FPow(a, n) == IF n = 0 THEN 1 ELSE FMul(a, FPow(a, n - 1))

\* field_t::invert: exponentiation by modulus - 2, which maps zero to zero
FInvert(a) == FPow(a, P - 2)

one == 1

two == 2

seven == 7

(***************************************************************************)
(* Bounds of the model.                                                    *)
(***************************************************************************)
MaxInputs == 2

NumThreads == 2

ThreadSize == 2

SmallSize == 2

\* widgets in the chain
MaxRounds == 3

\* ProverTurboArithmeticWidget objects
MaxWidgets == 3

VARIABLES
    \* compute_public_input_delta: arguments, locals, position, return value
    inputs, beta, gamma, subgroup_generator, coset_generator0,
    numerator, denominator, work_root, delta_idx, delta_pc, delta_ret,
    \* proving key
    wire_ffts, constraint_selector_ffts, constraint_selectors, quotient_large,
    \* transcript
    transcript_challenges, transcript_elements,
    \* arguments of the widget operations
    alpha_base, nu_base, challenge, verification_key,
    \* accumulators passed by reference
    r, poly, t_eval, batch_eval, points, scalars,
    \* position of the round and of each worker of the quotient loop
    widget_pc, worker_i,
    \* values returned by the widget operations
    quotient_ret, linear_ret, opening_ret, evaluation_ret, batch_ret, challenge_ret,
    \* the quad extraction term on its own: its arguments and its results
    quad_in, quad_out,
    \* the chain of widgets: invocations completed, and the challenge
    \* coefficients the chain started from
    round, chain_start,
    \* the quotient loop's workers at the grain of loads and stores: each
    \* worker's pending sum, and the workers that stored to each slot
    worker_local, slot_writers,
    \* ProverTurboArithmeticWidget objects: their key and member bindings
    widgets

dvars == <<inputs, beta, gamma, subgroup_generator, coset_generator0,
           numerator, denominator, work_root, delta_idx, delta_pc, delta_ret>>

keyvars == <<wire_ffts, constraint_selector_ffts, constraint_selectors>>

argvars == <<transcript_challenges, alpha_base, nu_base, challenge, verification_key>>

wvars == <<keyvars, argvars, quotient_large, transcript_elements,
           r, poly, t_eval, batch_eval, points, scalars, widget_pc, worker_i,
           quotient_ret, linear_ret, opening_ret, evaluation_ret, batch_ret,
           challenge_ret>>

xvars == <<quad_in, quad_out>>

cvars == <<round, chain_start>>

tvars == <<worker_local, slot_writers>>

evars == <<cvars, tvars, widgets>>

vars == <<dvars, wvars, xvars, evars>>

(***************************************************************************)
(* compute_public_input_delta                                              *)
(***************************************************************************)
InputVals == {0, 5, 8}

Gammas == {0, 3, 6}

Generators == {7, 8}

CosetGenerators == {2, 5}

SeqsUpTo(S, n) == UNION {[1 .. k -> S] : k \in 0 .. n}

\* the value work_root holds when the loop starts
WorkRootStartMutant(g) == g

WorkRootStart(g) == one

\* T2 of one loop iteration: the numerator's factor
DeltaNumeratorTermMutant(root, witness) ==
    FAdd(FMul(root, beta), FAdd(witness, gamma))

DeltaNumeratorTerm(root, witness) ==
    LET T0 == FAdd(witness, gamma)
        T1 == FMul(root, beta)
        T2 == FMul(T1, coset_generator0)
    IN  FAdd(T2, T0)

\* T1 of one loop iteration: the denominator's factor
DeltaDenominatorTerm(root, witness) ==
    LET T0 == FAdd(witness, gamma)
        T1 == FMul(root, beta)
    IN  FAdd(T1, T0)

\* the widget is not part of this computation
WidgetIdle ==
    /\ wire_ffts = <<>>
    /\ constraint_selector_ffts = <<>>
    /\ constraint_selectors = <<>>
    /\ quotient_large = <<>>
    /\ transcript_challenges = <<>>
    /\ transcript_elements = <<>>
    /\ alpha_base = 0
    /\ nu_base = 0
    /\ challenge = <<>>
    /\ verification_key = <<>>
    /\ r = <<>>
    /\ poly = <<>>
    /\ t_eval = 0
    /\ batch_eval = 0
    /\ points = <<>>
    /\ scalars = <<>>
    /\ widget_pc = "idle"
    /\ worker_i = <<>>
    /\ quotient_ret = 0
    /\ linear_ret = 0
    /\ opening_ret = 0
    /\ evaluation_ret = 0
    /\ batch_ret = 0
    /\ challenge_ret = <<>>

QuadIdle ==
    /\ quad_in = <<>>
    /\ quad_out = <<>>

\* no chain of widgets
ChainIdle ==
    /\ round = 0
    /\ chain_start = <<>>

\* no worker of the quotient loop
WorkersIdle ==
    /\ worker_local = <<>>
    /\ slot_writers = <<>>

\* no widget object
BindingIdle == widgets = <<>>

DeltaInit ==
    /\ WidgetIdle
    /\ QuadIdle
    /\ ChainIdle
    /\ WorkersIdle
    /\ BindingIdle
    /\ inputs \in SeqsUpTo(InputVals, MaxInputs)
    /\ beta \in Fr
    /\ gamma \in Gammas
    /\ subgroup_generator \in Generators
    /\ coset_generator0 \in CosetGenerators
    /\ numerator = one
    /\ denominator = one
    /\ work_root = WorkRootStart(subgroup_generator)
    /\ delta_idx = 1
    /\ delta_pc = "loop"
    /\ delta_ret = 0

\* one iteration of the loop over the inputs
DeltaLoopStep ==
    /\ delta_pc = "loop"
    /\ delta_idx <= Len(inputs)
    /\ numerator' = FMul(numerator, DeltaNumeratorTerm(work_root, inputs[delta_idx]))
    /\ denominator' = FMul(denominator, DeltaDenominatorTerm(work_root, inputs[delta_idx]))
    /\ work_root' = FMul(work_root, subgroup_generator)
    /\ delta_idx' = delta_idx + 1
    /\ UNCHANGED <<inputs, beta, gamma, subgroup_generator, coset_generator0,
                   delta_pc, delta_ret, wvars, xvars, evars>>

\* the loop is over: invert the denominator and return the product
DeltaReturn ==
    /\ delta_pc = "loop"
    /\ delta_idx > Len(inputs)
    /\ denominator' = FInvert(denominator)
    /\ delta_ret' = FMul(denominator', numerator)
    /\ delta_pc' = "returned"
    /\ UNCHANGED <<inputs, beta, gamma, subgroup_generator, coset_generator0,
                   numerator, work_root, delta_idx, wvars, xvars, evars>>

DeltaNext == DeltaLoopStep \/ DeltaReturn

SpecDelta == DeltaInit /\ [][DeltaNext]_vars

(***************************************************************************)
(* Claims about compute_public_input_delta (checked under SpecDelta).      *)
(***************************************************************************)
\* g_i of row i (rows counted from 0), re-exponentiated
RowRoot(i) == FPow(subgroup_generator, i)

RowNumerator(i) ==
    (RowRoot(i - 1) * beta * coset_generator0 + inputs[i] + gamma) % P

RowDenominator(i) == (RowRoot(i - 1) * beta + inputs[i] + gamma) % P

RECURSIVE NumeratorProduct(_)
NumeratorProduct(n) ==
    IF n = 0 THEN 1 ELSE (NumeratorProduct(n - 1) * RowNumerator(n)) % P

RECURSIVE DenominatorProduct(_)
DenominatorProduct(n) ==
    IF n = 0 THEN 1 ELSE (DenominatorProduct(n - 1) * RowDenominator(n)) % P

NoZeroDenominatorTerm == \A i \in 1 .. Len(inputs) : RowDenominator(i) # 0

\* C1: when no row's denominator term is zero, the returned delta is the
\* product of the numerator terms g_i*beta*k_0 + v_i + gamma divided by the
\* product of the denominator terms g_i*beta + v_i + gamma; for the empty
\* input list it is 1.
C1_DeltaIsQuotientOfProducts ==
    (delta_pc = "returned" /\ NoZeroDenominatorTerm) =>
        /\ (delta_ret * DenominatorProduct(Len(inputs))) % P
               = NumeratorProduct(Len(inputs))
        /\ (Len(inputs) = 0 => delta_ret = 1)

C1_Witness ==
    /\ delta_pc = "returned"
    /\ Len(inputs) >= 2
    /\ NoZeroDenominatorTerm
    /\ inputs[1] # inputs[2]
    /\ beta # 0
    /\ delta_ret \notin {0, 1}

IsExampleC2 ==
    /\ inputs = <<5>>
    /\ beta = 2
    /\ gamma = 3
    /\ subgroup_generator = 7

\* C2 as stated: for inputs [5], beta 2, gamma 3, generator 7 the returned
\* delta is (7*2*k_0 + 5 + 3) / (7*2 + 5 + 3).
C2_Original_FirstRowUsesGenerator ==
    (delta_pc = "returned" /\ IsExampleC2) =>
        (delta_ret * (7 * 2 + 5 + 3)) % P = (7 * 2 * coset_generator0 + 5 + 3) % P

\* C2 amended: for inputs [5], beta 2, gamma 3, generator 7 the returned
\* delta is (1*2*k_0 + 5 + 3) / (1*2 + 5 + 3): the first row's term uses
\* the generator power g^0 = 1, not 7.
C2_FirstRowUsesOne ==
    (delta_pc = "returned" /\ IsExampleC2) =>
        (delta_ret * (1 * 2 + 5 + 3)) % P = (1 * 2 * coset_generator0 + 5 + 3) % P

C2_Witness == delta_pc = "returned" /\ IsExampleC2 /\ delta_ret # 0

\* C3: when some row's denominator term is zero the computation ends
\* aborted and returns no delta to the caller.
C3_ZeroDenominatorAborts ==
    (delta_pc # "loop" /\ ~NoZeroDenominatorTerm) => delta_pc = "aborted"

(***************************************************************************)
(* The proving key, the transcript and the accumulators of one round.      *)
(***************************************************************************)
\* key->large_domain: num_threads workers of thread_size indices each
LargeDomain == 0 .. (NumThreads * ThreadSize - 1)

\* key->small_domain
SmallDomain == 0 .. (SmallSize - 1)

\* r and poly hold one coefficient more than the small domain has indices
PolyDomain == 0 .. SmallSize

WireFftNames == {"w_1_fft", "w_2_fft", "w_3_fft", "w_4_fft"}

SelectorNames == {"q_1", "q_2", "q_3", "q_4", "q_5", "q_m", "q_c", "q_arith"}

SelectorFftNames == {"q_1_fft", "q_2_fft", "q_3_fft", "q_4_fft", "q_5_fft",
                     "q_m_fft", "q_c_fft", "q_arith_fft"}

CommitmentNames == <<"Q_1", "Q_2", "Q_3", "Q_4", "Q_5", "Q_M", "Q_C",
                     "Q_ARITHMETIC_SELECTOR">>

Alphas == {2, 3}

AlphaBases == {1, 3}

NuBases == {1, 6}

Zs == {0, 2}

W3Bases == {1, 6}

W4Bases == {0, 3}

Q5Bases == {0, 1}

QArithValues == {0, 1, 2}

\* a table whose entry at index i is base + stride*i
Ramp(D, base, stride) == [i \in D |-> (base + stride * i) % P]

\* a q_arith table: every entry is 0, 1 or 2
QArithRamp(D, base) == [i \in D |-> (base + i) % 3]

\* what the accumulators hold when the round starts
QuotientLarge0 == Ramp(LargeDomain, 1, 3)

R0 == Ramp(PolyDomain, 5, 2)

Poly0 == Ramp(PolyDomain, 7, 4)

Scalars0 == <<11>>

Evals0 == [t_eval |-> 4, batch_eval |-> 9]

TEval0 == Evals0.t_eval

BatchEval0 == Evals0.batch_eval

Points0 == <<"PREV">>

AllOnCurve == [n \in {CommitmentNames[k] : k \in 1 .. 8} |-> "on_curve"]

\* transcript.get_element(name): the value appended under name
get_element(name) ==
    LET k == CHOOSE k \in 1 .. Len(transcript_elements) :
                 transcript_elements[k].name = name
    IN  transcript_elements[k].value

\* polynomial::evaluate(z, n): the sum of coeffs[k] * z^k over k < n
RECURSIVE Evaluate(_, _, _)
Evaluate(coeffs, z, n) ==
    IF n = 0 THEN 0
    ELSE FAdd(Evaluate(coeffs, z, n - 1), FMul(coeffs[n - 1], FPow(z, n - 1)))

ProverIdle ==
    /\ wire_ffts = <<>>
    /\ constraint_selector_ffts = <<>>
    /\ constraint_selectors = <<>>
    /\ quotient_large = <<>>
    /\ r = <<>>
    /\ poly = <<>>
    /\ worker_i = <<>>

DeltaIdle ==
    /\ inputs = <<>>
    /\ beta = 0
    /\ gamma = 0
    /\ subgroup_generator = 0
    /\ coset_generator0 = 0
    /\ numerator = 0
    /\ denominator = 0
    /\ work_root = 0
    /\ delta_idx = 0
    /\ delta_pc = "idle"
    /\ delta_ret = 0

NoReturns ==
    /\ quotient_ret = 0
    /\ linear_ret = 0
    /\ opening_ret = 0
    /\ evaluation_ret = 0
    /\ batch_ret = 0
    /\ challenge_ret = <<>>

\* a round of the prover's widget followed by the verifier's, on one transcript
Init ==
    /\ DeltaIdle
    /\ QuadIdle
    /\ NoReturns
    /\ \E w3 \in W3Bases, w4 \in W4Bases, q5 \in Q5Bases, qc \in Fr,
          qa \in QArithValues :
          /\ wire_ffts = [n \in WireFftNames |->
                CASE n = "w_1_fft" -> Ramp(LargeDomain, 2, 1)
                  [] n = "w_2_fft" -> Ramp(LargeDomain, 3, 2)
                  [] n = "w_3_fft" -> Ramp(LargeDomain, w3, 3)
                  [] n = "w_4_fft" -> Ramp(LargeDomain, w4, 1)]
          /\ constraint_selector_ffts = [n \in SelectorFftNames |->
                CASE n = "q_1_fft" -> Ramp(LargeDomain, 1, 1)
                  [] n = "q_2_fft" -> Ramp(LargeDomain, 0, 1)
                  [] n = "q_3_fft" -> Ramp(LargeDomain, 12, 2)
                  [] n = "q_4_fft" -> Ramp(LargeDomain, 2, 5)
                  [] n = "q_5_fft" -> Ramp(LargeDomain, q5, 1)
                  [] n = "q_m_fft" -> Ramp(LargeDomain, 1, 4)
                  [] n = "q_c_fft" -> Ramp(LargeDomain, qc, 6)
                  [] n = "q_arith_fft" -> QArithRamp(LargeDomain, qa)]
          /\ constraint_selectors = [n \in SelectorNames |->
                CASE n = "q_1" -> Ramp(SmallDomain, 1, 3)
                  [] n = "q_2" -> Ramp(SmallDomain, 0, 2)
                  [] n = "q_3" -> Ramp(SmallDomain, 12, 1)
                  [] n = "q_4" -> Ramp(SmallDomain, 2, 7)
                  [] n = "q_5" -> Ramp(SmallDomain, q5, 2)
                  [] n = "q_m" -> Ramp(SmallDomain, 1, 5)
                  [] n = "q_c" -> Ramp(SmallDomain, qc, 1)
                  [] n = "q_arith" -> QArithRamp(SmallDomain, qa)]
          /\ transcript_elements =
                << [name |-> "w_1", value |-> 2], [name |-> "w_2", value |-> 3],
                   [name |-> "w_3", value |-> w3], [name |-> "w_4", value |-> w4] >>
    /\ quotient_large = QuotientLarge0
    /\ \E a \in Alphas, z \in Zs :
          transcript_challenges = [alpha |-> a, z |-> z, nu |-> 2]
    /\ alpha_base \in AlphaBases
    /\ nu_base \in NuBases
    /\ challenge = [alpha_base |-> alpha_base,
                    alpha_step |-> transcript_challenges.alpha,
                    nu_base |-> nu_base,
                    nu_step |-> transcript_challenges.nu,
                    linear_nu |-> 4]
    /\ verification_key = AllOnCurve
    /\ r = R0
    /\ poly = Poly0
    /\ t_eval = TEval0
    /\ batch_eval = BatchEval0
    /\ points = Points0
    /\ scalars = Scalars0
    /\ widget_pc = "quotient"
    /\ worker_i = [j \in 0 .. (NumThreads - 1) |-> j * ThreadSize]
    /\ round = 0
    /\ chain_start = challenge
    /\ worker_local = [j \in 0 .. (NumThreads - 1) |-> [loaded |-> FALSE, value |-> 0]]
    /\ slot_writers = [i \in LargeDomain |-> <<>>]
    /\ BindingIdle

(***************************************************************************)
(* ProverTurboArithmeticWidget                                             *)
(***************************************************************************)
alpha == transcript_challenges.alpha

w_fft(n, i) == wire_ffts[n][i]

q_fft(n, i) == constraint_selector_ffts[n][i]

\* T5 of the quotient loop: q_5 * (w_4^2 - w_4) * (w_4 - 2) * alpha
QuotientBoolTermMutant(i) ==
    LET T5a == FSqr(w_fft("w_4_fft", i))
        T5b == FSub(T5a, w_fft("w_4_fft", i))
        T6 == FSub(w_fft("w_4_fft", i), two)
        T5c == FMul(T5b, T6)
    IN  FMul(T5c, q_fft("q_5_fft", i))

QuotientBoolTerm(i) ==
    LET T5a == FSqr(w_fft("w_4_fft", i))
        T5b == FSub(T5a, w_fft("w_4_fft", i))
        T6 == FSub(w_fft("w_4_fft", i), two)
        T5c == FMul(T5b, T6)
        T5d == FMul(T5c, q_fft("q_5_fft", i))
    IN  FMul(T5d, alpha)

\* T0 of the quotient loop up to the multiplication by q_arith
QuotientArithmeticTermMutant(i) ==
    LET T0a == FMul(w_fft("w_1_fft", i), q_fft("q_m_fft", i))
        T0b == FMul(T0a, w_fft("w_2_fft", i))
        T1 == FMul(w_fft("w_1_fft", i), q_fft("q_1_fft", i))
        T2a == FMul(w_fft("w_2_fft", i), q_fft("q_2_fft", i))
        T3 == FMul(w_fft("w_3_fft", i), q_fft("q_3_fft", i))
        T4a == FMul(w_fft("w_4_fft", i), q_fft("q_4_fft", i))
        T5 == QuotientBoolTerm(i)
        T0c == FAdd(T0b, T1)
        T2b == FAdd(T2a, T3)
        T4b == FAdd(T4a, T5)
        T0d == FAdd(T0c, T2b)
        T0e == FAdd(T0d, T4b)
    IN  FMul(T0e, q_fft("q_arith_fft", i))

QuotientArithmeticTerm(i) ==
    LET T0a == FMul(w_fft("w_1_fft", i), q_fft("q_m_fft", i))
        T0b == FMul(T0a, w_fft("w_2_fft", i))
        T1 == FMul(w_fft("w_1_fft", i), q_fft("q_1_fft", i))
        T2a == FMul(w_fft("w_2_fft", i), q_fft("q_2_fft", i))
        T3 == FMul(w_fft("w_3_fft", i), q_fft("q_3_fft", i))
        T4a == FMul(w_fft("w_4_fft", i), q_fft("q_4_fft", i))
        T5 == QuotientBoolTerm(i)
        T0c == FAdd(T0b, T1)
        T2b == FAdd(T2a, T3)
        T4b == FAdd(T4a, T5)
        T0d == FAdd(T0c, T2b)
        T0e == FAdd(T0d, T4b)
        T0f == FAdd(T0e, q_fft("q_c_fft", i))
    IN  FMul(T0f, q_fft("q_arith_fft", i))

\* T2 of the quad extraction term: (9 delta - 2 delta^2 - 7) * delta with
\* delta = w_3 - 4 w_4
QuadExtractionTermMutant(w_3, w_4) ==
    LET T2a == FAdd(w_4, w_4)
        T2b == FAdd(T2a, T2a)
        T2c == FSub(w_3, T2b)
        T3a == FSqr(T2c)
        T3b == FAdd(T3a, T3a)
        T4a == FAdd(T2c, T2c)
        T4b == FAdd(T4a, T2c)
        T5 == FAdd(T4b, T4b)
        T4c == FAdd(T4b, T5)
        T4d == FSub(T4c, T3b)
    IN  FMul(T2c, T4d)

QuadExtractionTerm(w_3, w_4) ==
    LET T2a == FAdd(w_4, w_4)
        T2b == FAdd(T2a, T2a)
        T2c == FSub(w_3, T2b)
        T3a == FSqr(T2c)
        T3b == FAdd(T3a, T3a)
        T4a == FAdd(T2c, T2c)
        T4b == FAdd(T4a, T2c)
        T5 == FAdd(T4b, T4b)
        T4c == FAdd(T4b, T5)
        T4d == FSub(T4c, T3b)
        T4e == FSub(T4d, seven)
    IN  FMul(T2c, T4e)

\* what the loop body adds to quotient_large[i]
QuotientContribution(i) ==
    LET T0a == QuotientArithmeticTerm(i)
        T1a == FSqr(q_fft("q_arith_fft", i))
        T1b == FSub(T1a, q_fft("q_arith_fft", i))
        T2 == QuadExtractionTerm(w_fft("w_3_fft", i), w_fft("w_4_fft", i))
        T1c == FMul(T1b, T2)
        T0b == FAdd(T0a, T1c)
    IN  FMul(T0b, alpha_base)

ThreadStart(j) == j * ThreadSize

ThreadEndMutant(j) == NumThreads * ThreadSize

ThreadEnd(j) == (j + 1) * ThreadSize

\* one iteration of worker j's inner loop
QuotientWorkerStep(j) ==
    /\ widget_pc = "quotient"
    /\ worker_i[j] < ThreadEnd(j)
    /\ quotient_large' = [quotient_large EXCEPT
           ![worker_i[j]] = FAdd(@, QuotientContribution(worker_i[j]))]
    /\ worker_i' = [worker_i EXCEPT ![j] = @ + 1]
    /\ UNCHANGED <<dvars, xvars, evars, keyvars, argvars, transcript_elements, r, poly, t_eval,
                   batch_eval, points, scalars, widget_pc, quotient_ret,
                   linear_ret, opening_ret, evaluation_ret, batch_ret,
                   challenge_ret>>

\* the value compute_quotient_contribution returns
QuotientReturnValueMutant == FMul(alpha_base, alpha)

QuotientReturnValue == FMul(alpha_base, FSqr(alpha))

\* every worker has finished: compute_quotient_contribution returns
QuotientReturn ==
    /\ widget_pc = "quotient"
    /\ \A j \in DOMAIN worker_i : worker_i[j] = ThreadEnd(j)
    /\ quotient_ret' = QuotientReturnValue
    /\ widget_pc' = "transcript_elements"
    /\ UNCHANGED <<dvars, xvars, evars, keyvars, argvars, quotient_large, transcript_elements,
                   r, poly, t_eval, batch_eval, points, scalars, worker_i,
                   linear_ret, opening_ret, evaluation_ret, batch_ret,
                   challenge_ret>>

\* q_arith.evaluate(z, key->small_domain.size)
QArithEvaluationMutant ==
    Evaluate(constraint_selectors["q_arith"], transcript_challenges.alpha,
             SmallSize)

QArithEvaluation ==
    Evaluate(constraint_selectors["q_arith"], transcript_challenges.z, SmallSize)

compute_transcript_elements ==
    /\ widget_pc = "transcript_elements"
    /\ transcript_elements' = Append(transcript_elements,
           [name |-> "q_arith", value |-> QArithEvaluation])
    /\ widget_pc' = "linear"
    /\ UNCHANGED <<dvars, xvars, evars, keyvars, argvars, quotient_large, r, poly, t_eval,
                   batch_eval, points, scalars, worker_i, quotient_ret,
                   linear_ret, opening_ret, evaluation_ret, batch_ret,
                   challenge_ret>>

\* is_w_4_bool of compute_linear_contribution
IsW4Bool ==
    LET w_4_eval == get_element("w_4")
    IN  FMul(FMul(FSub(FSqr(w_4_eval), w_4_eval), FSub(w_4_eval, two)), alpha)

\* what one iteration over the small domain adds to r[i]
LinearContributionMutant(i) ==
    LET q(n) == constraint_selectors[n][i]
        w_lr == FMul(get_element("w_1"), get_element("w_2"))
        T0a == FMul(w_lr, q("q_m"))
        T1 == FMul(get_element("w_1"), q("q_1"))
        T2a == FMul(get_element("w_2"), q("q_2"))
        T3 == FMul(get_element("w_3"), q("q_3"))
        T4a == FMul(get_element("w_4"), q("q_4"))
        T5 == FMul(IsW4Bool, q("q_5"))
        T0b == FAdd(T0a, T1)
        T2b == FAdd(T2a, T3)
        T4b == FAdd(T4a, T5)
        T0c == FAdd(T0b, T2b)
        T0d == FAdd(T0c, T4b)
        T0e == FAdd(T0d, q("q_c"))
    IN  FMul(T0e, alpha_base)

LinearContribution(i) ==
    LET q(n) == constraint_selectors[n][i]
        w_lr == FMul(get_element("w_1"), get_element("w_2"))
        T0a == FMul(w_lr, q("q_m"))
        T1 == FMul(get_element("w_1"), q("q_1"))
        T2a == FMul(get_element("w_2"), q("q_2"))
        T3 == FMul(get_element("w_3"), q("q_3"))
        T4a == FMul(get_element("w_4"), q("q_4"))
        T5 == FMul(IsW4Bool, q("q_5"))
        T0b == FAdd(T0a, T1)
        T2b == FAdd(T2a, T3)
        T4b == FAdd(T4a, T5)
        T0c == FAdd(T0b, T2b)
        T0d == FAdd(T0c, T4b)
        T0e == FAdd(T0d, q("q_c"))
        T0f == FMul(T0e, get_element("q_arith"))
    IN  FMul(T0f, alpha_base)

compute_linear_contribution ==
    /\ widget_pc = "linear"
    /\ r' = [i \in DOMAIN r |->
                IF i \in SmallDomain THEN FAdd(r[i], LinearContribution(i))
                ELSE r[i]]
    /\ linear_ret' = FMul(alpha_base, FSqr(alpha))
    /\ widget_pc' = "opening"
    /\ UNCHANGED <<dvars, xvars, evars, keyvars, argvars, quotient_large, transcript_elements,
                   poly, t_eval, batch_eval, points, scalars, worker_i,
                   quotient_ret, opening_ret, evaluation_ret, batch_ret,
                   challenge_ret>>

\* what compute_opening_poly_contribution adds to poly[i]
OpeningContributionMutant(i) ==
    FMul(constraint_selectors["q_arith"][i], transcript_challenges.nu)

OpeningContribution(i) == FMul(constraint_selectors["q_arith"][i], nu_base)

compute_opening_poly_contribution ==
    /\ widget_pc = "opening"
    /\ poly' = [i \in DOMAIN poly |->
                   IF i \in SmallDomain
                   THEN FAdd(poly[i], OpeningContribution(i))
                   ELSE poly[i]]
    /\ opening_ret' = FMul(nu_base, transcript_challenges.nu)
    /\ widget_pc' = "quotient_evaluation"
    /\ UNCHANGED <<dvars, xvars, evars, keyvars, argvars, quotient_large, transcript_elements,
                   r, t_eval, batch_eval, points, scalars, worker_i,
                   quotient_ret, linear_ret, evaluation_ret, batch_ret,
                   challenge_ret>>

(***************************************************************************)
(* VerifierTurboArithmeticWidget                                           *)
(***************************************************************************)
\* T2 of compute_quotient_evaluation_contribution
VerifierQuadExtractionTerm(w_3_eval, w_4_eval) ==
    LET T2a == FAdd(w_4_eval, w_4_eval)
        T2b == FAdd(T2a, T2a)
        T2c == FSub(w_3_eval, T2b)
        T3a == FSqr(T2c)
        T3b == FAdd(T3a, T3a)
        T4a == FAdd(T2c, T2c)
        T4b == FAdd(T4a, T2c)
        T5 == FAdd(T4b, T4b)
        T4c == FAdd(T4b, T5)
        T4d == FSub(T4c, T3b)
        T4e == FSub(T4d, seven)
    IN  FMul(T2c, T4e)

\* T1 of compute_quotient_evaluation_contribution: what is added to t_eval
QuotientEvaluationTermMutant ==
    LET q_arith_eval == get_element("q_arith")
        T1a == FSqr(q_arith_eval)
        T1b == FSub(T1a, q_arith_eval)
        T2 == VerifierQuadExtractionTerm(get_element("w_3"), get_element("w_4"))
    IN  FMul(T1b, T2)

QuotientEvaluationTerm ==
    LET q_arith_eval == get_element("q_arith")
        T1a == FSqr(q_arith_eval)
        T1b == FSub(T1a, q_arith_eval)
        T2 == VerifierQuadExtractionTerm(get_element("w_3"), get_element("w_4"))
        T1c == FMul(T1b, T2)
    IN  FMul(T1c, alpha_base)

compute_quotient_evaluation_contribution ==
    /\ widget_pc = "quotient_evaluation"
    /\ t_eval' = FAdd(t_eval, QuotientEvaluationTerm)
    /\ evaluation_ret' = FMul(alpha_base, FSqr(alpha))
    /\ widget_pc' = "batch_evaluation"
    /\ UNCHANGED <<dvars, xvars, evars, keyvars, argvars, quotient_large, transcript_elements,
                   r, poly, batch_eval, points, scalars, worker_i,
                   quotient_ret, linear_ret, opening_ret, batch_ret,
                   challenge_ret>>

compute_batch_evaluation_contribution ==
    /\ widget_pc = "batch_evaluation"
    /\ batch_eval' = FAdd(batch_eval, FMul(get_element("q_arith"), nu_base))
    /\ batch_ret' = FMul(nu_base, transcript_challenges.nu)
    /\ widget_pc' = "scalar_multiplication"
    /\ UNCHANGED <<dvars, xvars, evars, keyvars, argvars, quotient_large, transcript_elements,
                   r, poly, t_eval, points, scalars, worker_i,
                   quotient_ret, linear_ret, opening_ret, evaluation_ret,
                   challenge_ret>>

\* q_l_term, q_r_term, q_o_term, q_4_term: wire evaluation * alpha_base *
\* linear_nu * q_arith_eval
WireScalarTerm(w_eval) ==
    LET t1 == FMul(w_eval, challenge.alpha_base)
        t2 == FMul(t1, challenge.linear_nu)
    IN  FMul(t2, get_element("q_arith"))

Q5ScalarTermMutant ==
    LET w_4_eval == get_element("w_4")
        t1 == FSqr(w_4_eval)
        t2 == FSub(t1, w_4_eval)
        q_5_temp == FSub(w_4_eval, two)
        t3 == FMul(t2, q_5_temp)
        t5 == FMul(t3, challenge.alpha_base)
        t6 == FMul(t5, challenge.linear_nu)
    IN  FMul(t6, get_element("q_arith"))

Q5ScalarTerm ==
    LET w_4_eval == get_element("w_4")
        t1 == FSqr(w_4_eval)
        t2 == FSub(t1, w_4_eval)
        q_5_temp == FSub(w_4_eval, two)
        t3 == FMul(t2, q_5_temp)
        t4 == FMul(t3, challenge.alpha_step)
        t5 == FMul(t4, challenge.alpha_base)
        t6 == FMul(t5, challenge.linear_nu)
    IN  FMul(t6, get_element("q_arith"))

QMScalarTerm ==
    LET t1 == FMul(get_element("w_1"), get_element("w_2"))
        t2 == FMul(t1, challenge.alpha_base)
        t3 == FMul(t2, get_element("q_arith"))
    IN  FMul(t3, challenge.linear_nu)

QCScalarTerm ==
    LET t1 == FMul(challenge.alpha_base, challenge.linear_nu)
    IN  FMul(t1, get_element("q_arith"))

\* the scalar computed for the k-th commitment, in the order of the code
ScalarTerm(k) ==
    CASE k = 1 -> WireScalarTerm(get_element("w_1"))
      [] k = 2 -> WireScalarTerm(get_element("w_2"))
      [] k = 3 -> WireScalarTerm(get_element("w_3"))
      [] k = 4 -> WireScalarTerm(get_element("w_4"))
      [] k = 5 -> Q5ScalarTerm
      [] k = 6 -> QMScalarTerm
      [] k = 7 -> QCScalarTerm
      [] k = 8 -> challenge.nu_base

\* one "if (g1::on_curve(key->constraint_selectors.at(name)))" block: at()
\* throws std::out_of_range for a name the key does not hold
AppendIfOnCurveMutant(acc, k) ==
    IF acc.fault THEN acc
    ELSE IF verification_key[CommitmentNames[k]] = "absent"
         THEN [acc EXCEPT !.fault = TRUE]
         ELSE [acc EXCEPT !.points = Append(@, CommitmentNames[k]),
                          !.scalars = Append(@, ScalarTerm(k))]

AppendIfOnCurve(acc, k) ==
    IF acc.fault THEN acc
    ELSE IF verification_key[CommitmentNames[k]] = "absent"
         THEN [acc EXCEPT !.fault = TRUE]
         ELSE IF verification_key[CommitmentNames[k]] = "on_curve"
              THEN [acc EXCEPT !.points = Append(@, CommitmentNames[k]),
                               !.scalars = Append(@, ScalarTerm(k))]
              ELSE acc

\* the blocks for the first k commitments, in order
RECURSIVE AppendBlocks(_)
AppendBlocks(k) ==
    IF k = 0 THEN [points |-> points, scalars |-> scalars, fault |-> FALSE]
    ELSE AppendIfOnCurve(AppendBlocks(k - 1), k)

append_scalar_multiplication_inputs ==
    /\ widget_pc = "scalar_multiplication"
    /\ LET out == AppendBlocks(8)
       IN  /\ points' = out.points
           /\ scalars' = out.scalars
           /\ IF out.fault
              THEN /\ widget_pc' = "out_of_range"
                   /\ UNCHANGED challenge_ret
              ELSE /\ widget_pc' = "done"
                   /\ challenge_ret' =
                          [alpha_base |-> FMul(challenge.alpha_base,
                                               FSqr(challenge.alpha_step)),
                           alpha_step |-> challenge.alpha_step,
                           nu_base |-> FMul(challenge.nu_base, challenge.nu_step),
                           nu_step |-> challenge.nu_step,
                           linear_nu |-> challenge.linear_nu]
    /\ UNCHANGED <<dvars, xvars, evars, keyvars, argvars, quotient_large, transcript_elements,
                   r, poly, t_eval, batch_eval, worker_i,
                   quotient_ret, linear_ret, opening_ret, evaluation_ret,
                   batch_ret>>

(***************************************************************************)
(* Specifications                                                          *)
(***************************************************************************)
Next ==
    \/ \E j \in 0 .. (NumThreads - 1) : QuotientWorkerStep(j)
    \/ QuotientReturn
    \/ compute_transcript_elements
    \/ compute_linear_contribution
    \/ compute_opening_poly_contribution
    \/ compute_quotient_evaluation_contribution
    \/ compute_batch_evaluation_contribution
    \/ append_scalar_multiplication_inputs

Spec == Init /\ [][Next]_vars

(***************************************************************************)
(* Claims about the prover's quotient contribution (checked under Spec).   *)
(***************************************************************************)
\* the arithmetic sum with the q_5 term weighted by a
ArithmeticSum(w1, w2, w3, w4, q1, q2, q3, q4, q5, qm, qc, a) ==
    qm * w1 * w2 + q1 * w1 + q2 * w2 + q3 * w3 + q4 * w4
        + a * q5 * (w4 * w4 - w4) * (w4 - 2) + qc

\* (9d - 2d^2 - 7) * d
BitFactorOf(d) == (9 * d - 2 * d * d - 7) * d

\* the q_arith-gated sum plus the secondary bit-extraction term
GateIdentity(w1, w2, w3, w4, q1, q2, q3, q4, q5, qm, qc, qa, a) ==
    qa * ArithmeticSum(w1, w2, w3, w4, q1, q2, q3, q4, q5, qm, qc, a)
        + (qa * qa - qa) * BitFactorOf(w3 - 4 * w4)

\* the identity at index i of the FFT forms
GateIdentityAt(i, a) ==
    GateIdentity(w_fft("w_1_fft", i), w_fft("w_2_fft", i), w_fft("w_3_fft", i),
                 w_fft("w_4_fft", i), q_fft("q_1_fft", i), q_fft("q_2_fft", i),
                 q_fft("q_3_fft", i), q_fft("q_4_fft", i), q_fft("q_5_fft", i),
                 q_fft("q_m_fft", i), q_fft("q_c_fft", i), q_fft("q_arith_fft", i), a)

\* the q_5 sub-identity q_5 * (w_4^2 - w_4) * (w_4 - 2) at index i
Q5SubIdentityAt(i) ==
    LET w4 == w_fft("w_4_fft", i)
    IN  (q_fft("q_5_fft", i) * (w4 * w4 - w4) * (w4 - 2)) % P

QuotientReturned == widget_pc \notin {"idle", "quotient"}

\* C4 as stated: the quotient contribution adds alpha_base times the
\* identity whose q_5 term carries no factor alpha, at every index, and
\* returns alpha_base * alpha^2.
C4_Original_Q5TermUnweighted ==
    QuotientReturned =>
        /\ \A i \in LargeDomain :
              quotient_large[i]
                  = (QuotientLarge0[i] + alpha_base * GateIdentityAt(i, 1)) % P
        /\ quotient_ret = (alpha_base * alpha * alpha) % P

\* C4 amended: at every index i of the large domain the quotient
\* contribution adds alpha_base * ( q_arith*(q_m*w1*w2 + q1*w1 + q2*w2 +
\* q3*w3 + q4*w4 + alpha*q5*(w4^2 - w4)*(w4 - 2) + q_c)
\* + (q_arith^2 - q_arith)*(9d - 2d^2 - 7)*d ), d = w3 - 4*w4: the q5 term
\* is weighted by alpha; the operation returns alpha_base * alpha^2.
C4_QuotientAddsIdentity ==
    QuotientReturned =>
        /\ \A i \in LargeDomain :
              quotient_large[i]
                  = (QuotientLarge0[i] + alpha_base * GateIdentityAt(i, alpha)) % P
        /\ quotient_ret = (alpha_base * alpha * alpha) % P

C4_Witness ==
    /\ QuotientReturned
    /\ alpha_base # 1
    /\ \E i \in LargeDomain :
          /\ Q5SubIdentityAt(i) # 0
          /\ q_fft("q_arith_fft", i) = 1
          /\ quotient_large[i] # QuotientLarge0[i]
    /\ \E i \in LargeDomain :
          /\ q_fft("q_arith_fft", i) = 2
          /\ BitFactorOf(w_fft("w_3_fft", i) - 4 * w_fft("w_4_fft", i)) % P # 0

\* C5 as stated: wherever the gate identity (the gated arithmetic sum plus
\* the bit-extraction term) is zero, the quotient contribution leaves
\* quotient_large unchanged, for any alpha and alpha_base.
C5_Original_ZeroIdentityAddsZero ==
    QuotientReturned =>
        \A i \in LargeDomain :
            GateIdentityAt(i, 1) % P = 0 => quotient_large[i] = QuotientLarge0[i]

\* C5 amended: wherever the gate identity is zero and the q_5 sub-identity
\* q5*(w4^2 - w4)*(w4 - 2), which the code weights by alpha, is zero as
\* well, the quotient contribution leaves quotient_large unchanged, for
\* any alpha and alpha_base.
C5_ZeroIdentityAddsZero ==
    QuotientReturned =>
        \A i \in LargeDomain :
            (GateIdentityAt(i, 1) % P = 0 /\ Q5SubIdentityAt(i) = 0)
                => quotient_large[i] = QuotientLarge0[i]

C5_Witness ==
    /\ QuotientReturned
    /\ \E i \in LargeDomain :
          /\ GateIdentityAt(i, 1) % P = 0
          /\ Q5SubIdentityAt(i) = 0
          /\ q_fft("q_arith_fft", i) # 0
          /\ q_fft("q_c_fft", i) # 0
          /\ FMul(FMul(w_fft("w_1_fft", i), w_fft("w_2_fft", i)),
                  q_fft("q_m_fft", i)) # 0
          /\ quotient_large[i] = QuotientLarge0[i]

(***************************************************************************)
(* The quad extraction term as a function of its arguments.                *)
(***************************************************************************)
InitQuad ==
    /\ DeltaIdle
    /\ WidgetIdle
    /\ ChainIdle
    /\ WorkersIdle
    /\ BindingIdle
    /\ quad_in \in [w_3 : Fr, w_4 : Fr]
    /\ quad_out = [done |-> {}, prover |-> 0, verifier |-> 0]

\* the prover's quotient loop computes the term
ProverQuadExtraction ==
    /\ quad_in # <<>>
    /\ "prover" \notin quad_out.done
    /\ quad_out' = [quad_out EXCEPT
           !.done = @ \cup {"prover"},
           !.prover = QuadExtractionTerm(quad_in.w_3, quad_in.w_4)]
    /\ UNCHANGED <<dvars, wvars, evars, quad_in>>

\* the verifier's quotient evaluation computes the term
VerifierQuadExtraction ==
    /\ quad_in # <<>>
    /\ "verifier" \notin quad_out.done
    /\ quad_out' = [quad_out EXCEPT
           !.done = @ \cup {"verifier"},
           !.verifier = VerifierQuadExtractionTerm(quad_in.w_3, quad_in.w_4)]
    /\ UNCHANGED <<dvars, wvars, evars, quad_in>>

NextQuad == ProverQuadExtraction \/ VerifierQuadExtraction

SpecQuad == InitQuad /\ [][NextQuad]_vars

\* d = w3 - 4*w4 of the arguments
QuadDelta == (quad_in.w_3 - 4 * quad_in.w_4) % P

QuadResults == {quad_out[side] : side \in quad_out.done}

q_arith_eval == get_element("q_arith")

\* the arithmetic sum of the transcript evaluations against the selector
\* coefficients at index k of the small domain, q_5 term weighted by alpha
ArithmeticSumOfEvals(k) ==
    ArithmeticSum(get_element("w_1"), get_element("w_2"), get_element("w_3"),
                  get_element("w_4"), constraint_selectors["q_1"][k],
                  constraint_selectors["q_2"][k], constraint_selectors["q_3"][k],
                  constraint_selectors["q_4"][k], constraint_selectors["q_5"][k],
                  constraint_selectors["q_m"][k], constraint_selectors["q_c"][k],
                  alpha)

BitTermOfEvals ==
    (q_arith_eval * q_arith_eval - q_arith_eval)
        * BitFactorOf(get_element("w_3") - 4 * get_element("w_4"))

LinearReturned ==
    widget_pc \in {"opening", "quotient_evaluation", "batch_evaluation",
                   "scalar_multiplication", "done"}

EvaluationReturned ==
    widget_pc \in {"batch_evaluation", "scalar_multiplication", "done"}

\* C7 as stated: the linear contribution adds to r[i] the identity of the
\* quotient contribution, the bit-extraction term included, over the
\* transcript evaluations and the selector coefficients, scaled by
\* alpha_base; it returns alpha_base * alpha^2 and changes no other entry.
C7_Original_LinearHasBitTerm ==
    LinearReturned =>
        /\ \A k \in SmallDomain :
              r[k] = (R0[k] + alpha_base * (q_arith_eval * ArithmeticSumOfEvals(k)
                                            + BitTermOfEvals)) % P
        /\ \A k \in PolyDomain \ SmallDomain : r[k] = R0[k]
        /\ linear_ret = (alpha_base * alpha * alpha) % P

\* C7 amended: the linear contribution adds to r[i], for every index i of
\* the small domain, alpha_base * q_arith(z) * (q_m*w1*w2 + q1*w1 + q2*w2 +
\* q3*w3 + q4*w4 + alpha*q5*(w4^2 - w4)*(w4 - 2) + q_c) over the transcript
\* evaluations and the selector coefficients q[i]: the q_arith-gated
\* arithmetic sum only, without the bit-extraction term; it returns
\* alpha_base * alpha^2 and changes no other entry.
C7_LinearAddsGatedSum ==
    /\ LinearReturned =>
          /\ \A k \in SmallDomain :
                r[k] = (R0[k] + alpha_base * q_arith_eval * ArithmeticSumOfEvals(k)) % P
          /\ \A k \in PolyDomain \ SmallDomain : r[k] = R0[k]
          /\ linear_ret = (alpha_base * alpha * alpha) % P
    /\ widget_pc = "opening" =>
          /\ poly = Poly0
          /\ t_eval = TEval0
          /\ batch_eval = BatchEval0
          /\ points = Points0
          /\ scalars = Scalars0

C7_Witness ==
    /\ widget_pc = "opening"
    /\ BitTermOfEvals % P # 0
    /\ alpha_base # 1
    /\ \E k \in SmallDomain :
          /\ r[k] # R0[k]
          /\ FMul(IsW4Bool, constraint_selectors["q_5"][k]) # 0

\* index i of the FFT forms holds the transcript's wire and q_arith
\* evaluations and the selector coefficients of index k
SamePoint(i, k) ==
    /\ \A n \in 1 .. 4 :
          w_fft(<<"w_1_fft", "w_2_fft", "w_3_fft", "w_4_fft">>[n], i)
              = get_element(<<"w_1", "w_2", "w_3", "w_4">>[n])
    /\ \A n \in 1 .. 7 :
          q_fft(<<"q_1_fft", "q_2_fft", "q_3_fft", "q_4_fft", "q_5_fft",
                  "q_m_fft", "q_c_fft">>[n], i)
              = constraint_selectors[<<"q_1", "q_2", "q_3", "q_4", "q_5",
                                       "q_m", "q_c">>[n]][k]
    /\ q_fft("q_arith_fft", i) = q_arith_eval

\* C8: the linear contribution and the verifier's quotient evaluation
\* contribution return the same next alpha_base, and what the first adds
\* to r for a selector tuple plus what the second adds to t_eval is what
\* the quotient contribution adds at a point holding the same values.
C8_LinearPlusEvaluationIsQuotient ==
    EvaluationReturned =>
        /\ linear_ret = evaluation_ret
        /\ \A i \in LargeDomain, k \in SmallDomain :
              SamePoint(i, k) =>
                  (r[k] + P - R0[k] + t_eval + P - TEval0) % P
                      = (quotient_large[i] + P - QuotientLarge0[i]) % P

C8_Witness ==
    /\ EvaluationReturned
    /\ alpha_base # 1
    /\ t_eval # TEval0
    /\ \E i \in LargeDomain, k \in SmallDomain :
          /\ SamePoint(i, k)
          /\ r[k] # R0[k]
          /\ quotient_large[i] # QuotientLarge0[i]

\* the scalar pushed with the commitment name
ScalarFor(name) ==
    scalars[CHOOSE k \in 1 .. Len(points) : points[k] = name]

Pushed(name) == \E k \in 1 .. Len(points) : points[k] = name

\* C9: with challenge.alpha_step the prover's alpha and challenge.alpha_base
\* the prover's alpha_base, the pushed scalars weighted by the selector
\* values sum to linear_nu times what the linear contribution adds to r[i];
\* every scalar is its wire factor * alpha_base * linear_nu * q_arith(z),
\* and only Q_5's carries the extra factor alpha_step.
C9_ScalarsMirrorLinearCoefficients ==
    (/\ widget_pc = "done"
     /\ challenge.alpha_step = alpha
     /\ challenge.alpha_base = alpha_base
     /\ \A n \in 1 .. 7 : Pushed(CommitmentNames[n])) =>
        LET c == alpha_base * challenge.linear_nu * q_arith_eval
            w1 == get_element("w_1")
            w2 == get_element("w_2")
            w3 == get_element("w_3")
            w4 == get_element("w_4")
        IN  /\ \A k \in SmallDomain :
                  (  ScalarFor("Q_1") * constraint_selectors["q_1"][k]
                   + ScalarFor("Q_2") * constraint_selectors["q_2"][k]
                   + ScalarFor("Q_3") * constraint_selectors["q_3"][k]
                   + ScalarFor("Q_4") * constraint_selectors["q_4"][k]
                   + ScalarFor("Q_5") * constraint_selectors["q_5"][k]
                   + ScalarFor("Q_M") * constraint_selectors["q_m"][k]
                   + ScalarFor("Q_C") * constraint_selectors["q_c"][k]) % P
                      = (challenge.linear_nu * (r[k] + P - R0[k])) % P
            /\ ScalarFor("Q_1") = (w1 * c) % P
            /\ ScalarFor("Q_2") = (w2 * c) % P
            /\ ScalarFor("Q_3") = (w3 * c) % P
            /\ ScalarFor("Q_4") = (w4 * c) % P
            /\ ScalarFor("Q_5")
                   = ((w4 * w4 - w4) * (w4 - 2) * challenge.alpha_step * c) % P
            /\ ScalarFor("Q_M") = (w1 * w2 * c) % P
            /\ ScalarFor("Q_C") = c % P

C9_Witness ==
    /\ widget_pc = "done"
    /\ challenge.alpha_step = alpha
    /\ challenge.alpha_base = alpha_base
    /\ \A n \in 1 .. 7 : Pushed(CommitmentNames[n])
    /\ ScalarFor("Q_5") # 0
    /\ ScalarFor("Q_1") # ScalarFor("Q_C")
    /\ \E k \in SmallDomain :
          r[k] # R0[k] /\ constraint_selectors["q_5"][k] # 0

(***************************************************************************)
(* The verifier's widget on its own, over every verification key.          *)
(***************************************************************************)
CommitmentStates == {"on_curve", "off_curve", "absent"}

CommitmentNameSet == {CommitmentNames[k] : k \in 1 .. 8}

QArithEvals == {1, 2}

\* the verifier's round: the transcript already holds the proof's evaluations
InitVerifier ==
    /\ DeltaIdle
    /\ QuadIdle
    /\ ProverIdle
    /\ ChainIdle
    /\ WorkersIdle
    /\ BindingIdle
    /\ NoReturns
    /\ \E qa \in QArithEvals :
          transcript_elements =
              << [name |-> "w_1", value |-> 2], [name |-> "w_2", value |-> 3],
                 [name |-> "w_3", value |-> 6], [name |-> "w_4", value |-> 3],
                 [name |-> "q_arith", value |-> qa] >>
    /\ transcript_challenges = [alpha |-> 2, z |-> 2, nu |-> 2]
    /\ alpha_base = 3
    /\ nu_base = 6
    /\ challenge = [alpha_base |-> alpha_base,
                    alpha_step |-> transcript_challenges.alpha,
                    nu_base |-> nu_base,
                    nu_step |-> transcript_challenges.nu,
                    linear_nu |-> 4]
    /\ verification_key \in [CommitmentNameSet -> CommitmentStates]
    /\ t_eval = TEval0
    /\ batch_eval = BatchEval0
    /\ points = Points0
    /\ scalars = Scalars0
    /\ widget_pc = "quotient_evaluation"

NextVerifier ==
    \/ compute_quotient_evaluation_contribution
    \/ compute_batch_evaluation_contribution
    \/ append_scalar_multiplication_inputs

SpecVerifier == InitVerifier /\ [][NextVerifier]_vars

IsOnCurve(name) == verification_key[name] = "on_curve"

AbsentIndices == {k \in 1 .. 8 : verification_key[CommitmentNames[k]] = "absent"}

\* the commitments looked up before the first absent one
LookedUp ==
    IF AbsentIndices = {} THEN CommitmentNames
    ELSE SubSeq(CommitmentNames, 1,
                (CHOOSE k \in AbsentIndices : \A m \in AbsentIndices : k <= m) - 1)

ScalarMultiplicationEnded == widget_pc \in {"done", "out_of_range"}

\* C10 as stated: one (point, scalar) pair is appended for each of the
\* eight selector commitments that is on the curve and nothing for one that
\* is invalid or absent from the key, which is skipped without an error;
\* points and scalars grow by the same amount and keep their earlier
\* entries.
C10_Original_AbsentIsSkipped ==
    ScalarMultiplicationEnded =>
        /\ widget_pc = "done"
        /\ points = Points0 \o SelectSeq(CommitmentNames, IsOnCurve)
        /\ Len(scalars) - Len(Scalars0) = Len(points) - Len(Points0)
        /\ SubSeq(scalars, 1, Len(Scalars0)) = Scalars0

\* C10 amended: for a key that holds all eight selector commitments, one
\* (point, scalar) pair is appended for each commitment that is on the
\* curve and nothing for one that is not, which is skipped without an
\* error; points and scalars grow by the same amount and keep their
\* earlier entries. A commitment absent from the key is not skipped: its
\* lookup raises a missing-key fault, after the pairs of the on-curve
\* commitments before it have been appended.
C10_OneValidPairPerOnCurveCommitment ==
    ScalarMultiplicationEnded =>
        /\ widget_pc = "done" <=> AbsentIndices = {}
        /\ points = Points0 \o SelectSeq(LookedUp, IsOnCurve)
        /\ Len(scalars) - Len(Scalars0) = Len(points) - Len(Points0)
        /\ SubSeq(scalars, 1, Len(Scalars0)) = Scalars0

C10_Witness ==
    /\ widget_pc = "done"
    /\ verification_key["Q_3"] = "off_curve"
    /\ verification_key["Q_ARITHMETIC_SELECTOR"] = "off_curve"
    /\ Len(points) = Len(Points0) + 6
    /\ Len(scalars) = Len(Scalars0) + 6

(***************************************************************************)
(* The chain of widgets: each invocation consumes the challenge            *)
(* coefficients the previous one returned.                                 *)
(***************************************************************************)
\* a chain over one key, started from every challenge of Init
InitChain ==
    /\ Init
    /\ wire_ffts["w_3_fft"][0] = 1
    /\ wire_ffts["w_4_fft"][0] = 0
    /\ constraint_selector_ffts["q_5_fft"][0] = 0
    /\ constraint_selector_ffts["q_c_fft"][0] = 0

\* the caller's loop over widgets: the next widget is handed what this one
\* returned
NextWidget ==
    /\ widget_pc = "done"
    /\ round + 1 < MaxRounds
    /\ round' = round + 1
    /\ alpha_base' = quotient_ret
    /\ nu_base' = opening_ret
    /\ challenge' = challenge_ret
    /\ widget_pc' = "quotient"
    /\ worker_i' = [j \in 0 .. (NumThreads - 1) |-> ThreadStart(j)]
    /\ UNCHANGED <<dvars, xvars, keyvars, tvars, widgets, chain_start,
                   transcript_challenges, verification_key, quotient_large,
                   transcript_elements, r, poly, t_eval, batch_eval, points,
                   scalars, quotient_ret, linear_ret, opening_ret,
                   evaluation_ret, batch_ret, challenge_ret>>

NextChain ==
    \/ Next
    \/ NextWidget

SpecChain == InitChain /\ [][NextChain]_vars

\* the operations of one invocation, in the order they run
PcOrder == <<"quotient", "transcript_elements", "linear", "opening",
             "quotient_evaluation", "batch_evaluation",
             "scalar_multiplication", "done">>

PcIndex(pc) == CHOOSE k \in 1 .. Len(PcOrder) : PcOrder[k] = pc

\* how many times the operation at position pc has returned so far
Invocations(pc) ==
    round + (IF PcIndex(widget_pc) > PcIndex(pc) THEN 1 ELSE 0)

\* alpha_base * alpha^(2k) and nu_base * nu^k over the chain's start
ChainAlpha(k) ==
    (chain_start.alpha_base * chain_start.alpha_step ^ (2 * k)) % P

ChainNu(k) == (chain_start.nu_base * chain_start.nu_step ^ k) % P

StepsAreChallenges ==
    /\ chain_start.alpha_step = transcript_challenges.alpha
    /\ chain_start.nu_step = transcript_challenges.nu

\* C11: started from one alpha_base and nu_base with alpha_step = alpha and
\* nu_step = nu, after k invocations every alpha chain (quotient, linear,
\* quotient evaluation, scalar multiplication) has returned
\* alpha_base * alpha^(2k), every nu chain (opening, batch evaluation, scalar
\* multiplication) has returned nu_base * nu^k, and alpha_step, nu_step and
\* linear_nu come back unchanged.
C11_ChallengeChainAgrees ==
    StepsAreChallenges =>
        /\ Invocations("quotient") > 0 =>
               quotient_ret = ChainAlpha(Invocations("quotient"))
        /\ Invocations("linear") > 0 =>
               linear_ret = ChainAlpha(Invocations("linear"))
        /\ Invocations("quotient_evaluation") > 0 =>
               evaluation_ret = ChainAlpha(Invocations("quotient_evaluation"))
        /\ Invocations("opening") > 0 =>
               opening_ret = ChainNu(Invocations("opening"))
        /\ Invocations("batch_evaluation") > 0 =>
               batch_ret = ChainNu(Invocations("batch_evaluation"))
        /\ Invocations("scalar_multiplication") > 0 =>
               challenge_ret =
                   [alpha_base |-> ChainAlpha(Invocations("scalar_multiplication")),
                    alpha_step |-> chain_start.alpha_step,
                    nu_base |-> ChainNu(Invocations("scalar_multiplication")),
                    nu_step |-> chain_start.nu_step,
                    linear_nu |-> chain_start.linear_nu]

\* a second widget of the chain has finished and the coefficients have moved
C11_Witness ==
    /\ StepsAreChallenges
    /\ round >= 1
    /\ widget_pc = "done"
    /\ challenge_ret.alpha_base # chain_start.alpha_base
    /\ challenge_ret.alpha_base # challenge.alpha_base
    /\ challenge_ret.nu_base # chain_start.nu_base
    /\ quotient_ret = challenge_ret.alpha_base
    /\ opening_ret = challenge_ret.nu_base

(***************************************************************************)
(* Claims about the q_arith opening (checked under Spec).                  *)
(***************************************************************************)
Returned(pc) == PcIndex(widget_pc) > PcIndex(pc)

\* q_arith(z): the sum of q_arith[k] * z^k over the small domain
QArithAtZ ==
    LET q == constraint_selectors["q_arith"]
        z == transcript_challenges.z
        RECURSIVE Sum(_)
        Sum(n) == IF n = 0 THEN 0
                  ELSE IF n = 1 THEN q[0]
                  ELSE Sum(n - 1) + q[n - 1] * z ^ (n - 1)
    IN  Sum(SmallSize) % P

\* C12: compute_opening_poly_contribution adds nu_base * q_arith[i] to
\* poly[i] for every i of the small domain, the verifier's
\* compute_batch_evaluation_contribution adds nu_base * q_arith(z) to
\* batch_eval, both return nu_base * nu, and the scalar pushed for
\* Q_ARITHMETIC_SELECTOR is the same nu_base.
C12_OpeningWeightedByNuBase ==
    /\ Returned("opening") =>
           /\ \A i \in SmallDomain :
                  poly[i] = (Poly0[i]
                                + nu_base * constraint_selectors["q_arith"][i]) % P
           /\ \A i \in DOMAIN poly \ SmallDomain : poly[i] = Poly0[i]
           /\ opening_ret = (nu_base * transcript_challenges.nu) % P
    /\ Returned("batch_evaluation") =>
           /\ batch_eval = (BatchEval0 + nu_base * QArithAtZ) % P
           /\ batch_ret = (nu_base * transcript_challenges.nu) % P
    /\ (widget_pc = "done" /\ challenge.nu_base = nu_base) =>
           /\ Pushed("Q_ARITHMETIC_SELECTOR")
           /\ ScalarFor("Q_ARITHMETIC_SELECTOR") = nu_base

\* both sides have folded a q_arith that is not zero, under a nu_base that
\* is neither one nor nu
C12_Witness ==
    /\ widget_pc = "done"
    /\ challenge.nu_base = nu_base
    /\ nu_base # 1
    /\ nu_base # transcript_challenges.nu
    /\ QArithAtZ # 0
    /\ \E i \in SmallDomain : poly[i] # Poly0[i]
    /\ batch_eval # BatchEval0
    /\ ScalarFor("Q_ARITHMETIC_SELECTOR") = nu_base

(***************************************************************************)
(* The quotient loop at the grain of its loads and stores: the last        *)
(* statement of an iteration reads quotient_large[i], adds the iteration's *)
(* private T0 and writes quotient_large[i] back; the workers interleave    *)
(* between the read and the write.                                         *)
(***************************************************************************)
InitWorkers ==
    /\ Init
    /\ wire_ffts["w_4_fft"][0] = 0
    /\ constraint_selector_ffts["q_5_fft"][0] = 1
    /\ constraint_selector_ffts["q_c_fft"][0] \in {0, 4}
    /\ nu_base = 1

\* worker j computes T0 for its index i and reads quotient_large[i]
WorkerLoad(j) ==
    /\ widget_pc = "quotient"
    /\ worker_i[j] < ThreadEnd(j)
    /\ ~worker_local[j].loaded
    /\ worker_local' = [worker_local EXCEPT
           ![j] = [loaded |-> TRUE,
                   value |-> FAdd(quotient_large[worker_i[j]],
                                  QuotientContribution(worker_i[j]))]]
    /\ UNCHANGED <<dvars, wvars, xvars, cvars, slot_writers, widgets>>

\* worker j writes the sum to quotient_large[i] and moves to i + 1
WorkerStore(j) ==
    /\ widget_pc = "quotient"
    /\ worker_i[j] < ThreadEnd(j)
    /\ worker_local[j].loaded
    /\ quotient_large' = [quotient_large EXCEPT
           ![worker_i[j]] = worker_local[j].value]
    /\ slot_writers' = [slot_writers EXCEPT ![worker_i[j]] = Append(@, j)]
    /\ worker_local' = [worker_local EXCEPT ![j].loaded = FALSE]
    /\ worker_i' = [worker_i EXCEPT ![j] = @ + 1]
    /\ UNCHANGED <<dvars, xvars, cvars, widgets, keyvars, argvars,
                   transcript_elements, r, poly, t_eval, batch_eval, points,
                   scalars, widget_pc, quotient_ret, linear_ret, opening_ret,
                   evaluation_ret, batch_ret, challenge_ret>>

NextWorkers ==
    \/ \E j \in 0 .. (NumThreads - 1) : WorkerLoad(j)
    \/ \E j \in 0 .. (NumThreads - 1) : WorkerStore(j)
    \/ QuotientReturn

SpecWorkers == InitWorkers /\ [][NextWorkers]_vars

\* the buffer a single thread leaves after visiting every index once
SingleThreadedBuffer ==
    [i \in LargeDomain |-> FAdd(QuotientLarge0[i], QuotientContribution(i))]

\* the worker whose range [j * thread_size, (j + 1) * thread_size) holds i
OwnerOf(i) == i \div ThreadSize

\* C13: each worker writes only the quotient_large slots of its own range
\* [j * thread_size, (j + 1) * thread_size), no slot is written twice, and
\* once the loop has joined, under every interleaving, every index below
\* num_threads * thread_size has been updated exactly once and the buffer
\* is the single-threaded one.
C13_WorkersWriteOwnSlotsOnce ==
    /\ \A i \in LargeDomain :
           /\ Len(slot_writers[i]) <= 1
           /\ \A k \in 1 .. Len(slot_writers[i]) :
                  slot_writers[i][k] = OwnerOf(i)
           /\ quotient_large[i] = IF slot_writers[i] = <<>>
                                  THEN QuotientLarge0[i]
                                  ELSE SingleThreadedBuffer[i]
    /\ widget_pc # "quotient" =>
           /\ quotient_large = SingleThreadedBuffer
           /\ \A i \in LargeDomain : Len(slot_writers[i]) = 1

\* the loop has joined after every worker stored to every slot of its range
\* and the buffer has changed
C13_Witness ==
    /\ widget_pc = "transcript_elements"
    /\ \A i \in LargeDomain : slot_writers[i] = <<OwnerOf(i)>>
    /\ \E i \in LargeDomain : \E k \in LargeDomain :
           /\ OwnerOf(i) # OwnerOf(k)
           /\ quotient_large[i] # QuotientLarge0[i]
           /\ quotient_large[k] # QuotientLarge0[k]

(***************************************************************************)
(* Claims about the transcript (checked under Spec).                       *)
(***************************************************************************)
\* the accumulators the widget operations add into
Accumulators == <<quotient_large, r, poly, t_eval, batch_eval, points, scalars>>

\* C14: the only thing compute_transcript_elements changes is the
\* transcript, to which it appends q_arith(z) under "q_arith", leaving the
\* elements and challenges already there, the key and every accumulator as
\* they were; no other widget operation changes the transcript.
C14_TranscriptOnlyGainsQArith ==
    [][/\ widget_pc = "transcript_elements" =>
             /\ transcript_elements' =
                    Append(transcript_elements,
                           [name |-> "q_arith", value |-> QArithAtZ])
             /\ UNCHANGED <<transcript_challenges, keyvars, Accumulators>>
       /\ widget_pc # "transcript_elements" =>
             UNCHANGED <<transcript_elements, transcript_challenges>>]_vars

\* compute_transcript_elements has run at a z that is not zero: the
\* transcript holds the wire evaluations it held before, then q_arith(z)
C14_Witness ==
    /\ widget_pc = "linear"
    /\ transcript_challenges.z # 0
    /\ Len(transcript_elements) = 5
    /\ transcript_elements[5] = [name |-> "q_arith", value |-> QArithAtZ]
    /\ QArithAtZ # constraint_selectors["q_arith"][0]
    /\ \A k \in 1 .. 4 :
           transcript_elements[k].name = <<"w_1", "w_2", "w_3", "w_4">>[k]

(***************************************************************************)
(* Construction and assignment of ProverTurboArithmeticWidget: which map   *)
(* entry of which key each selector member is taken from.                  *)
(***************************************************************************)
Slots == 1 .. MaxWidgets

\* keys that hold all selectors: constraint_selectors has every q_X and
\* constraint_selector_ffts every q_X_fft; constraint_selectors may hold
\* further entries
Keys == {"plain", "partial", "extra"}

KeySelectors(k) ==
    SelectorNames \cup (CASE k = "plain" -> {}
                          [] k = "partial" -> {"q_1_fft"}
                          [] k = "extra" -> SelectorFftNames)

\* the members, in the order the assignment operators assign them
MemberOrder == <<"q_1", "q_2", "q_3", "q_4", "q_5", "q_m", "q_c", "q_arith",
                 "q_1_fft", "q_2_fft", "q_3_fft", "q_4_fft", "q_5_fft",
                 "q_m_fft", "q_c_fft", "q_arith_fft">>

Members == {MemberOrder[n] : n \in 1 .. Len(MemberOrder)}

Unbound == [map |-> "none", name |-> "none", key |-> "none"]

NoWidget == [state |-> "none", key |-> "none", q |-> [n \in Members |-> Unbound]]

\* the member initialisers of the three constructors
ConstructorBinding(k) ==
    [n \in Members |->
        [map |-> IF n \in SelectorNames THEN "constraint_selectors"
                                         ELSE "constraint_selector_ffts",
         name |-> n,
         key |-> k]]

Constructed(k) == [state |-> "live", key |-> k, q |-> ConstructorBinding(k)]

\* the assignments of operator= up to the n-th, over key k: every member is
\* looked up under its own name in key->constraint_selectors, and at() on a
\* missing name throws, leaving the remaining members as they were
RECURSIVE AssignMembers(_, _, _)
AssignMembers(w, k, n) ==
    IF n = 0 THEN [state |-> "live", key |-> k, q |-> w.q]
    ELSE LET acc == AssignMembers(w, k, n - 1)
             name == MemberOrder[n]
         IN  IF acc.state = "out_of_range" THEN acc
             ELSE IF name \in KeySelectors(k)
             THEN [acc EXCEPT !.q[name] =
                       [map |-> "constraint_selectors", name |-> name, key |-> k]]
             ELSE [acc EXCEPT !.state = "out_of_range"]

Assigned(w, other) == AssignMembers(w, other.key, Len(MemberOrder))

InitBinding ==
    /\ DeltaIdle
    /\ QuadIdle
    /\ WidgetIdle
    /\ ChainIdle
    /\ WorkersIdle
    /\ widgets = [s \in Slots |-> NoWidget]

\* ProverTurboArithmeticWidget(input_key, input_witness)
Construct(s, k) ==
    /\ widgets[s].state = "none"
    /\ widgets' = [widgets EXCEPT ![s] = Constructed(k)]
    /\ UNCHANGED <<dvars, wvars, xvars, cvars, tvars>>

\* ProverTurboArithmeticWidget(const ProverTurboArithmeticWidget& other)
CopyConstruct(s, o) ==
    /\ widgets[s].state = "none"
    /\ widgets[o].state = "live"
    /\ widgets' = [widgets EXCEPT ![s] = Constructed(widgets[o].key)]
    /\ UNCHANGED <<dvars, wvars, xvars, cvars, tvars>>

\* ProverTurboArithmeticWidget(ProverTurboArithmeticWidget&& other)
MoveConstruct(s, o) ==
    /\ widgets[s].state = "none"
    /\ widgets[o].state = "live"
    /\ widgets' = [widgets EXCEPT ![s] = Constructed(widgets[o].key)]
    /\ UNCHANGED <<dvars, wvars, xvars, cvars, tvars>>

\* operator=(const ProverTurboArithmeticWidget& other)
CopyAssign(s, o) ==
    /\ widgets[s].state = "live"
    /\ widgets[o].state = "live"
    /\ widgets' = [widgets EXCEPT ![s] = Assigned(widgets[s], widgets[o])]
    /\ UNCHANGED <<dvars, wvars, xvars, cvars, tvars>>

\* operator=(ProverTurboArithmeticWidget&& other)
MoveAssign(s, o) ==
    /\ widgets[s].state = "live"
    /\ widgets[o].state = "live"
    /\ widgets' = [widgets EXCEPT ![s] = Assigned(widgets[s], widgets[o])]
    /\ UNCHANGED <<dvars, wvars, xvars, cvars, tvars>>

NextBinding ==
    \/ \E s \in Slots, k \in Keys : Construct(s, k)
    \/ \E s \in Slots, o \in Slots : CopyConstruct(s, o)
    \/ \E s \in Slots, o \in Slots : MoveConstruct(s, o)
    \/ \E s \in Slots, o \in Slots : CopyAssign(s, o)
    \/ \E s \in Slots, o \in Slots : MoveAssign(s, o)

SpecBinding == InitBinding /\ [][NextBinding]_vars

\* C15: after any sequence of constructions and assignments over keys that
\* hold all selectors, every q_X is taken from
\* key->constraint_selectors["q_X"] and every q_X_fft from
\* key->constraint_selector_ffts["q_X_fft"], as the primary constructor
\* binds them, and no assignment has ended in a missing-key fault.
C15_MembersBoundAsConstructed ==
    \A s \in Slots :
        widgets[s].state # "none" =>
            /\ widgets[s].state # "out_of_range"
            /\ widgets[s].q = ConstructorBinding(widgets[s].key)

====
